---------------------------- MODULE Spec2Model ----------------------------
(***************************************************************************)
(* pydantic-sqlite: the DataBase facade (pydantic_sqlite/_core.py) and the *)
(* union decoder (pydantic_sqlite/_misc.py) as a state machine.            *)
(*                                                                         *)
(* The state is one DataBase object: its registry (_basemodels,            *)
(* _primary_keys), the SQLite database it owns (_db), the file that        *)
(* database lives in (db_filename, ":memory:" if none), the files on disk   *)
(* and one snapshot wrapper (pydantic_sqlite/_wrapper.py, _handler.py).    *)
(* Every public method is one action; the private helpers are operators on *)
(* the DataBase state, so that add's recursion into nested records is one  *)
(* atomic step, as it is on the single calling thread.                     *)
(***************************************************************************)
EXTENDS Integers, Sequences, FiniteSets, TLC

VARIABLES _basemodels, _primary_keys, _db, db_filename, files, wrapper, call

vars == <<_basemodels, _primary_keys, _db, db_filename, files, wrapper, call>>

-----------------------------------------------------------------------------
(* Bounds of the input universe.                                           *)

\* number of distinct primary-key values per record type
MaxKeys == 2
\* integers used as field values: 0 .. MaxInt
MaxInt == 1

-----------------------------------------------------------------------------
(* Python objects.  Every object is a record with a type tag `ty`:         *)
(*   str / int / float / bool / NoneType : [ty, s, n]                      *)
(*        s is the text of a str, n the value of an int, a bool (0/1) or   *)
(*        a float counted in tenths (15 is 1.5)                            *)
(*   list                               : [ty, items]                      *)
(*   a BaseModel instance               : [ty = "model", cls, fields]      *)

PyStr(s) == [ty |-> "str", s |-> s, n |-> 0]
PyInt(n) == [ty |-> "int", s |-> "", n |-> n]
PyFloat(tenths) == [ty |-> "float", s |-> "", n |-> tenths]
PyBool(b) == [ty |-> "bool", s |-> "", n |-> IF b THEN 1 ELSE 0]
PyNone == [ty |-> "NoneType", s |-> "", n |-> 0]
PyList(items) == [ty |-> "list", items |-> items]
PyModel(cls, fields) == [ty |-> "model", cls |-> cls, fields |-> fields]

\* range of the integers whose decimal text the model can parse back
IntRange == (0 - 20) .. 20

Digits == <<"0", "1", "2", "3", "4", "5", "6", "7", "8", "9">>

RECURSIVE IntToStr(_)
\* str(n) of a Python int
IntToStr(n) ==
  IF n < 0 THEN "-" \o IntToStr(0 - n)
  ELSE IF n < 10 THEN Digits[n + 1]
  ELSE IntToStr(n \div 10) \o Digits[(n % 10) + 1]

\* str(x) of a Python float holding tenths/10, e.g. 15 -> "1.5", 10 -> "1.0"
FloatToStr(tenths) ==
  IF tenths < 0 THEN "-" \o IntToStr((0 - tenths) \div 10) \o "." \o Digits[((0 - tenths) % 10) + 1]
  ELSE IntToStr(tenths \div 10) \o "." \o Digits[(tenths % 10) + 1]

\* the text is the decimal form of an integer
IsIntText(s) == \E k \in IntRange : IntToStr(k) = s
ParseInt(s) == CHOOSE k \in IntRange : IntToStr(k) = s

FloatRange == {10 * k : k \in IntRange} \cup {10 * k + 5 : k \in 0 .. 2}
\* the text is the decimal form of a number with a fraction
IsFloatText(s) == \E k \in FloatRange : FloatToStr(k) = s
ParseFloat(s) == CHOOSE k \in FloatRange : FloatToStr(k) = s

\* name = value followed by the code that reads name: Op at v
Bind(v, Op(_)) == Op(v)

\* Python's truth value of an object
Truthy(o) ==
  CASE o.ty = "str" -> o.s # ""
    [] o.ty \in {"int", "float", "bool"} -> o.n # 0
    [] o.ty = "NoneType" -> FALSE
    [] o.ty = "list" -> Len(o.items) > 0
    [] OTHER -> TRUE

\* str(o)
PyStrOf(o) ==
  CASE o.ty = "str" -> o.s
    [] o.ty = "int" -> IntToStr(o.n)
    [] o.ty = "float" -> FloatToStr(o.n)
    [] o.ty = "bool" -> IF o.n = 1 THEN "True" ELSE "False"
    [] o.ty = "NoneType" -> "None"
    [] o.ty = "list" -> "[...]"
    [] OTHER -> o.cls \o "(...)"

\* t(value) for a member type t of a Union, as Python's constructors do it:
\* [ok |-> the call returned, val |-> its result]
Construct(t, o) ==
  CASE t = "str" -> [ok |-> TRUE, val |-> PyStr(PyStrOf(o))]
    [] t = "int" ->
         CASE o.ty \in {"int", "bool"} -> [ok |-> TRUE, val |-> PyInt(o.n)]
           [] o.ty = "float" -> [ok |-> TRUE, val |-> PyInt(o.n \div 10)]
           [] o.ty = "str" /\ IsIntText(o.s) -> [ok |-> TRUE, val |-> PyInt(ParseInt(o.s))]
           [] OTHER -> [ok |-> FALSE, val |-> o]
    [] t = "float" ->
         CASE o.ty \in {"int", "bool"} -> [ok |-> TRUE, val |-> PyFloat(10 * o.n)]
           [] o.ty = "float" -> [ok |-> TRUE, val |-> o]
           [] o.ty = "str" /\ IsIntText(o.s) -> [ok |-> TRUE, val |-> PyFloat(10 * ParseInt(o.s))]
           [] o.ty = "str" /\ IsFloatText(o.s) -> [ok |-> TRUE, val |-> PyFloat(ParseFloat(o.s))]
           [] OTHER -> [ok |-> FALSE, val |-> o]
    [] t = "bool" -> [ok |-> TRUE, val |-> PyBool(Truthy(o))]
    [] OTHER -> [ok |-> FALSE, val |-> o]

RECURSIVE TryUnionTypesReversed(_, _, _)
\* the same loop taking the members from the last declared to the first
TryUnionTypesReversed(members, i, value) ==
  IF i > Len(members) THEN value
  ELSE IF Construct(members[Len(members) + 1 - i], value).ok
       THEN Construct(members[Len(members) + 1 - i], value).val
  ELSE TryUnionTypesReversed(members, i + 1, value)

RECURSIVE TryUnionTypes(_, _, _)
\* the loop of convert_value_into_union_types from member i on
TryUnionTypes(members, i, value) ==
  IF i > Len(members) THEN value
  ELSE IF Construct(members[i], value).ok THEN Construct(members[i], value).val
  ELSE TryUnionTypes(members, i + 1, value)

\* convert_value_into_union_types(union_type, value); members = get_args(union_type)
convert_value_into_union_types(members, value) ==
  IF (\E i \in 1 .. Len(members) : members[i] = "NoneType") /\ value.ty = "NoneType"
  THEN PyNone
  ELSE TryUnionTypes(members, 1, value)

-----------------------------------------------------------------------------
(* Record types (pydantic BaseModel classes).  A class is known by its     *)
(* name; model_fields gives, in declaration order, each field's name and   *)
(* annotation: kind is the annotation's origin (str, int, float, bool,     *)
(* Any, Union, Literal, list, or model for a BaseModel class) and args its *)
(* typing.get_args (for model: the class).                                 *)

Field(name, kind, args) == [name |-> name, kind |-> kind, args |-> args]

\* the classes of tests/_helper.py and of the field tests; Student is a
\* subclass of Person that declares no field of its own.  Hello and World
\* are the classes of tests/test_nested.py; Label and Sign are a pair like
\* them whose conversion hands back the name as it is.
model_fields(cls) ==
  CASE cls \in {"Person", "Student"} ->
         <<Field("uuid", "str", <<>>), Field("name", "str", <<>>)>>
    [] cls = "Employee" ->
         <<Field("uuid", "str", <<>>), Field("person", "model", <<"Person">>)>>
    [] cls = "Team" ->
         <<Field("uuid", "str", <<>>), Field("employee", "model", <<"Employee">>)>>
    [] cls = "Car" ->
         <<Field("series_number", "str", <<>>), Field("model", "str", <<>>)>>
    [] cls = "Garage" ->
         <<Field("uuid", "str", <<>>), Field("cars", "list", <<"Car">>)>>
    [] cls = "Basic" ->
         <<Field("uuid", "str", <<>>), Field("ex_str", "str", <<>>),
           Field("ex_int", "int", <<>>), Field("ex_float", "float", <<>>),
           Field("ex_bool", "bool", <<>>), Field("ex_list", "list", <<"str">>)>>
    [] cls = "Extends" ->
         <<Field("uuid", "str", <<>>),
           Field("ex_Literal", "Literal", <<"hello", "hi", "hey">>),
           Field("ex_list_any", "list", <<"Any">>),
           Field("ex_any", "Any", <<>>),
           Field("ex_optional", "Union", <<"str", "NoneType">>),
           Field("ex_union", "Union", <<"str", "int">>)>>
    [] cls \in {"Hello", "Label"} -> <<Field("name", "str", <<>>)>>
    [] cls = "World" ->
         <<Field("uuid", "str", <<>>), Field("hello", "model", <<"Hello">>)>>
    [] cls = "Sign" ->
         <<Field("uuid", "str", <<>>), Field("label", "model", <<"Label">>)>>
    [] OTHER -> <<>>

\* the classes that derive from BaseModel
Classes ==
  {"Person", "Student", "Employee", "Team", "Car", "Garage", "Basic", "Extends", "Hello",
   "World", "Label", "Sign"}

\* the classes cls derives from, itself included (its method resolution order)
Mro(cls) == IF cls = "Student" THEN {"Student", "Person"} ELSE {cls}

\* isinstance(obj, BaseModel)
IsBaseModel(obj) == obj.ty = "model"

\* isinstance(obj, cls) for a BaseModel class cls
IsInstance(obj, cls) == obj.ty = "model" /\ cls \in Mro(obj.cls)

\* issubclass(annotation, BaseModel) for a list's element type or a field's annotation
IsModelClass(name) == name \in Classes

\* the names of a class's fields
FieldNames(cls) == {model_fields(cls)[i].name : i \in 1 .. Len(model_fields(cls))}

\* model_fields[name]
FieldInfo(cls, name) ==
  model_fields(cls)[CHOOSE i \in 1 .. Len(model_fields(cls)) : model_fields(cls)[i].name = name]

\* str(basemodel_cls) without its "<class '...'>" frame: the qualified name
QualifiedName(cls) == "tests." \o cls

\* importlib.import_module(modulename) followed by getattr(module, classname)
ResolveClass(qualified) == CHOOSE c \in Classes : QualifiedName(c) = qualified

\* cls.SQConfig: whether the class declares the custom conversion, and enables it
HasSQConfig(cls) == cls \in {"Hello", "Label"}
SQConfig(cls) == [special_insert |-> HasSQConfig(cls), has_convert |-> HasSQConfig(cls)]

\* obj_class.SQConfig.convert(obj): f"_{obj.name}" for Hello, obj.name for Label
SQConvert(obj) ==
  IF obj.cls = "Label" THEN obj.fields.name ELSE PyStr("_" \o obj.fields.name.s)

-----------------------------------------------------------------------------
(* pydantic's validation of one value against an annotation, lax mode:     *)
(* [ok |-> it validates, val |-> the coerced value].                       *)

ValidateScalar(kind, args, o) ==
  CASE kind = "str" -> [ok |-> o.ty = "str", val |-> o]
    [] kind = "int" ->
         CASE o.ty = "int" -> [ok |-> TRUE, val |-> o]
           [] o.ty = "bool" -> [ok |-> TRUE, val |-> PyInt(o.n)]
           [] o.ty = "float" /\ o.n % 10 = 0 -> [ok |-> TRUE, val |-> PyInt(o.n \div 10)]
           [] o.ty = "str" /\ IsIntText(o.s) -> [ok |-> TRUE, val |-> PyInt(ParseInt(o.s))]
           [] OTHER -> [ok |-> FALSE, val |-> o]
    [] kind = "float" ->
         CASE o.ty = "float" -> [ok |-> TRUE, val |-> o]
           [] o.ty \in {"int", "bool"} -> [ok |-> TRUE, val |-> PyFloat(10 * o.n)]
           [] o.ty = "str" /\ IsIntText(o.s) -> [ok |-> TRUE, val |-> PyFloat(10 * ParseInt(o.s))]
           [] o.ty = "str" /\ IsFloatText(o.s) -> [ok |-> TRUE, val |-> PyFloat(ParseFloat(o.s))]
           [] OTHER -> [ok |-> FALSE, val |-> o]
    [] kind = "bool" ->
         CASE o.ty = "bool" -> [ok |-> TRUE, val |-> o]
           [] o.ty = "int" /\ o.n \in {0, 1} -> [ok |-> TRUE, val |-> PyBool(o.n = 1)]
           [] o.ty = "float" /\ o.n \in {0, 10} -> [ok |-> TRUE, val |-> PyBool(o.n = 10)]
           [] o.ty = "str" /\ o.s \in {"0", "1"} -> [ok |-> TRUE, val |-> PyBool(o.s = "1")]
           [] OTHER -> [ok |-> FALSE, val |-> o]
    [] kind = "NoneType" -> [ok |-> o.ty = "NoneType", val |-> o]
    [] kind = "Any" -> [ok |-> TRUE, val |-> o]
    [] kind = "Literal" ->
         [ok |-> o.ty = "str" /\ \E i \in 1 .. Len(args) : args[i] = o.s, val |-> o]
    [] kind = "model" -> [ok |-> IsInstance(o, args[1]), val |-> o]
    [] OTHER -> [ok |-> FALSE, val |-> o]

\* the kind under which a name in get_args is validated
KindOf(name) == IF IsModelClass(name) THEN "model" ELSE name

RECURSIVE ValidateUnionLax(_, _, _)
ValidateUnionLax(members, i, o) ==
  IF i > Len(members) THEN [ok |-> FALSE, val |-> o]
  ELSE IF ValidateScalar(KindOf(members[i]), <<members[i]>>, o).ok
       THEN ValidateScalar(KindOf(members[i]), <<members[i]>>, o)
  ELSE ValidateUnionLax(members, i + 1, o)

\* a Union in pydantic's smart mode: a member the value already is an exact
\* instance of wins, else the first member that validates, left to right
ValidateUnion(members, o) ==
  IF \E i \in 1 .. Len(members) : members[i] = o.ty
  THEN [ok |-> TRUE, val |-> o]
  ELSE ValidateUnionLax(members, 1, o)

Validate(info, o) ==
  CASE info.kind = "Union" -> ValidateUnion(info.args, o)
    [] info.kind = "list" ->
         IF o.ty # "list" THEN [ok |-> FALSE, val |-> o]
         ELSE LET each == [i \in 1 .. Len(o.items) |->
                             ValidateScalar(KindOf(info.args[1]), <<info.args[1]>>, o.items[i])]
              IN [ok |-> \A i \in 1 .. Len(o.items) : each[i].ok,
                  val |-> PyList([i \in 1 .. Len(o.items) |-> each[i].val])]
    [] OTHER -> ValidateScalar(info.kind, info.args, o)

ValidationError == [ty |-> "ValidationError"]

\* basemodel_cls(**d): the instance, or ValidationError when a field is
\* missing from d or does not validate
NewModel(cls, d) ==
  IF \A f \in FieldNames(cls) : f \in DOMAIN d /\ Validate(FieldInfo(cls, f), d[f]).ok
  THEN PyModel(cls, [f \in FieldNames(cls) |-> Validate(FieldInfo(cls, f), d[f]).val])
  ELSE ValidationError

-----------------------------------------------------------------------------
(* The storage engine (sqlite_utils.Database over sqlite3), at the         *)
(* interface DataBase uses.  A stored value is written as the Python       *)
(* object sqlite3 hands back for it: TEXT is a str, INTEGER an int, REAL a *)
(* float, NULL is None.  A database is a function from the names of its    *)
(* tables to [pk, types, foreign_keys, rows]; a row is a function from     *)
(* column names to stored values.                                          *)

\* json.dumps(list, default=repr) as sqlite_utils applies it to a list
\* value: a str whose text is the JSON document of the items
JsonDumps(o) ==
  [ty |-> "str", s |-> "json", n |-> 0,
   doc |-> [i \in 1 .. Len(o.items) |->
              IF o.items[i].ty \in {"model", "list"} THEN PyStr(PyStrOf(o.items[i])) ELSE o.items[i]]]

\* a reading that hands the stored text on without parsing it
JsonLoadsUnparsed(o) == [ok |-> TRUE, val |-> o]

\* json.loads(value): [ok |-> it parsed (to a list), val |-> the list]
JsonLoads(o) ==
  IF o.ty = "str" /\ "doc" \in DOMAIN o
  THEN [ok |-> TRUE, val |-> PyList(o.doc)]
  ELSE [ok |-> FALSE, val |-> o]

\* the value sqlite3 binds for a Python object: a bool is an int, a list is
\* JSON text; a BaseModel instance cannot be bound
CanBind(o) == o.ty # "model"
Adapt(o) ==
  CASE o.ty = "bool" -> PyInt(o.n)
    [] o.ty = "list" -> JsonDumps(o)
    [] OTHER -> o

\* the column type sqlite_utils declares for the first value it sees
ColumnType(o) ==
  CASE o.ty \in {"int", "bool"} -> "INTEGER"
    [] o.ty = "float" -> "FLOAT"
    [] OTHER -> "TEXT"

\* SQLite's column affinity: what a value becomes when stored in a column
\* declared with type decl
ApplyAffinity(decl, v) ==
  CASE decl = "TEXT" ->
         CASE v.ty = "int" -> PyStr(IntToStr(v.n))
           [] v.ty = "float" -> PyStr(FloatToStr(v.n))
           [] OTHER -> v
    [] decl = "INTEGER" ->
         CASE v.ty = "float" /\ v.n % 10 = 0 -> PyInt(v.n \div 10)
           [] v.ty = "str" /\ IsIntText(v.s) -> PyInt(ParseInt(v.s))
           [] v.ty = "str" /\ IsFloatText(v.s) ->
                IF ParseFloat(v.s) % 10 = 0 THEN PyInt(ParseFloat(v.s) \div 10)
                ELSE PyFloat(ParseFloat(v.s))
           [] OTHER -> v
    [] decl = "FLOAT" ->
         CASE v.ty = "int" -> PyFloat(10 * v.n)
           [] v.ty = "str" /\ IsIntText(v.s) -> PyFloat(10 * ParseInt(v.s))
           [] v.ty = "str" /\ IsFloatText(v.s) -> PyFloat(ParseFloat(v.s))
           [] OTHER -> v
    [] OTHER -> v

\* db.table_names()
table_names(db) == DOMAIN db

\* db[tablename].foreign_keys as {key.column: key.other_table}; empty for a
\* table that does not exist
foreign_keys_of(db, tablename) ==
  IF tablename \in DOMAIN db THEN db[tablename].foreign_keys ELSE <<>>

\* db[tablename].rows, what rows_where would give without its where clause
rows_unfiltered(db, tablename, column, value) ==
  IF tablename \in DOMAIN db THEN db[tablename].rows ELSE {}

\* db[tablename].rows_where(f"{column} = ?", [value]); a table that does not
\* exist has no rows
rows_where(db, tablename, column, value) ==
  IF tablename \notin DOMAIN db \/ ~CanBind(value) THEN {}
  ELSE {r \in db[tablename].rows :
          column \in DOMAIN r /\ r[column].ty # "NoneType"
          /\ r[column] = ApplyAffinity(db[tablename].types[column], Adapt(value))}

\* db[tablename].rows
rows_of(db, tablename) == IF tablename \in DOMAIN db THEN db[tablename].rows ELSE {}

\* the update of a dict: the entries of new over those of old
Updated(old, new) == new @@ old

\* db[tablename].insert(record, pk=pk, foreign_keys=foreign_keys, ignore=True):
\* INSERT OR IGNORE alone, a row whose key is stored is left as it is
insert_or_ignore(db, tablename, record, pk, foreign_keys) ==
  IF \E c \in DOMAIN record : ~CanBind(record[c])
  THEN [db |-> db, exc |-> "InterfaceError"]
  ELSE
  LET created == IF tablename \in DOMAIN db THEN db
                 ELSE Updated(db, tablename :>
                        [pk |-> pk,
                         types |-> [c \in DOMAIN record |-> ColumnType(record[c])],
                         foreign_keys |-> foreign_keys,
                         rows |-> {}])
      t == created[tablename]
      stored == [c \in DOMAIN record |-> ApplyAffinity(t.types[c], Adapt(record[c]))]
      ignored == \E r \in t.rows : r[t.pk] = stored[t.pk]
  IN [db |-> Updated(created, tablename :>
                [t EXCEPT !.rows = IF ignored THEN @ ELSE @ \cup {stored}]),
      exc |-> "none"]

\* db[tablename].upsert(record, pk=pk, foreign_keys=foreign_keys):
\* creates the table from the record when it does not exist, then INSERT OR
\* IGNORE of the key followed by UPDATE ... WHERE key, in one transaction.
\* [db |-> the database after it, exc |-> the exception raised]
upsert(db, tablename, record, pk, foreign_keys) ==
  IF \E c \in DOMAIN record : ~CanBind(record[c])
  THEN [db |-> db, exc |-> "InterfaceError"]
  ELSE
  Bind(IF tablename \in DOMAIN db THEN db
       ELSE Updated(db, tablename :>
              [pk |-> pk,
               types |-> [c \in DOMAIN record |-> ColumnType(record[c])],
               foreign_keys |-> foreign_keys,
               rows |-> {}]), LAMBDA created :
  Bind([c \in DOMAIN record |->
          ApplyAffinity(created[tablename].types[c], Adapt(record[c]))], LAMBDA stored :
    LET t == created[tablename]
        ignored == pk = t.pk /\ \E r \in t.rows : r[pk] = stored[pk]
        inserted == IF ignored THEN t.rows
                    ELSE t.rows \cup {[c \in DOMAIN record |-> IF c = pk THEN stored[pk] ELSE PyNone]}
        matched == {r \in inserted : r[pk] = stored[pk]}
        others == inserted \ matched
        unique == Cardinality(matched) = 1 /\ \A r \in others : r[t.pk] # stored[t.pk]
    IN IF unique
       THEN [db |-> Updated(created, tablename :> [t EXCEPT !.rows = others \cup {stored}]),
             exc |-> "none"]
       ELSE [db |-> db, exc |-> "IntegrityError"]))

-----------------------------------------------------------------------------
(* class TableBaseModel and the private helpers of class DataBase.  The    *)
(* object's state is passed as st = [bm, pks, db]: _basemodels,            *)
(* _primary_keys and _db.                                                  *)

\* TableBaseModel(table, basemodel_cls, pks)
TableBaseModel(table, basemodel_cls, pks) ==
  [table |-> table, basemodel_cls |-> basemodel_cls,
   modulename |-> QualifiedName(basemodel_cls), pks |-> pks]

\* TableBaseModel.data()
TableData(m) ==
  [table |-> PyStr(m.table), modulename |-> PyStr(m.modulename),
   pks |-> PyList([i \in 1 .. Len(m.pks) |-> PyStr(m.pks[i])])]

\* the column the metadata table __basemodels__ is upserted by
MetaKey == "modulename"

_create_new_table(st, tablename, basemodel_cls, pk) ==
  LET _m == TableBaseModel(tablename, basemodel_cls, <<pk>>)
  IN [bm |-> Updated(st.bm, tablename :> _m),
      pks |-> Updated(st.pks, tablename :> pk),
      db |-> upsert(st.db, "__basemodels__", TableData(_m), MetaKey, <<>>).db]

\* type(obj) as a class name
TypeOf(o) == IF o.ty = "model" THEN o.cls ELSE o.ty

\* special_possible(obj_class), the inner function of _special_conversion
special_possible(obj_class) ==
  IF ~HasSQConfig(obj_class) \/ ~SQConfig(obj_class).has_convert THEN FALSE
  ELSE SQConfig(obj_class).special_insert

\* _special_conversion(field_value): [exc, res]; res is PyBool(FALSE) where
\* the method returns False
_special_conversion(field_value) ==
  IF field_value.ty = "list"
  THEN IF Len(field_value.items) = 0 THEN [exc |-> "none", res |-> PyBool(FALSE)]
       ELSE IF ~special_possible(TypeOf(field_value.items[1]))
            THEN [exc |-> "none", res |-> PyBool(FALSE)]
       ELSE IF ~\A i \in 1 .. Len(field_value.items) :
                   IsInstance(field_value.items[i], TypeOf(field_value.items[1]))
            THEN [exc |-> "ValueError", res |-> PyBool(FALSE)]
       ELSE [exc |-> "none",
             res |-> PyList([i \in 1 .. Len(field_value.items) |-> SQConvert(field_value.items[i])])]
  ELSE IF ~special_possible(TypeOf(field_value))
       THEN [exc |-> "none", res |-> PyBool(FALSE)]
  ELSE [exc |-> "none", res |-> SQConvert(field_value)]

\* _get_foreign_table_name as it would be if it raised ValueError
_get_foreign_table_name_value_error(st, field_name, foreign_tables) ==
  IF field_name \notin DOMAIN foreign_tables THEN [exc |-> "ValueError", name |-> ""]
  ELSE IF foreign_tables[field_name] \notin DOMAIN st.db
       THEN [exc |-> "ValueError", name |-> ""]
  ELSE [exc |-> "none", name |-> foreign_tables[field_name]]

\* _get_foreign_table_name as it would be if it looked the table up in the
\* registry and not among the tables of the database
_get_foreign_table_name_registered(st, field_name, foreign_tables) ==
  IF field_name \notin DOMAIN foreign_tables THEN [exc |-> "KeyError", name |-> ""]
  ELSE IF foreign_tables[field_name] \notin DOMAIN st.bm
       THEN [exc |-> "KeyError", name |-> ""]
  ELSE [exc |-> "none", name |-> foreign_tables[field_name]]

\* _get_foreign_table_name(field_name, foreign_tables): [exc, name]
_get_foreign_table_name(st, field_name, foreign_tables) ==
  IF field_name \notin DOMAIN foreign_tables THEN [exc |-> "KeyError", name |-> ""]
  ELSE IF foreign_tables[field_name] \notin table_names(st.db)
       THEN [exc |-> "KeyError", name |-> ""]
  ELSE [exc |-> "none", name |-> foreign_tables[field_name]]

\* model_in_table(tablename, pk_value): [exc, res]
model_in_table(st, tablename, pk_value) ==
  IF tablename \notin DOMAIN st.pks THEN [exc |-> "KeyError", res |-> FALSE]
  ELSE LET _pk == st.pks[tablename]
           value == IF IsBaseModel(pk_value) THEN pk_value.fields[_pk] ELSE pk_value
       IN [exc |-> "none", res |-> rows_where(st.db, tablename, _pk, value) # {}]

\* count_entries_in_table(tablename): [exc, res]
count_entries_in_table(st, tablename) ==
  IF tablename \notin table_names(st.db) THEN [exc |-> "OperationalError", res |-> 0]
  ELSE [exc |-> "none", res |-> Cardinality(st.db[tablename].rows)]

RECURSIVE add(_, _, _, _, _, _)
RECURSIVE add_fields(_, _, _, _, _, _)
RECURSIVE _upsert_model_in_foreign_table(_, _, _, _, _)
RECURSIVE add_nested_models(_, _, _, _, _, _)
RECURSIVE add_nested_model(_, _, _, _, _, _)
RECURSIVE add_field(_, _, _, _, _)

\* three conditions add_nested_model could test in place of its own
nested_only_when_absent(present, update_nested_models) == ~present
nested_always(present, update_nested_models) == TRUE
nested_only_when_present(present, update_nested_models) == present /\ update_nested_models

\* add_nested_model's condition for adding the nested record:
\* not self.model_in_table(foreign_table_name, model) or update_nested_models
nested_needs_add(present, update_nested_models) == ~present \/ update_nested_models

\* add_nested_model(model), the inner function of
\* _upsert_model_in_foreign_table: [st, exc, id, model], model the instance
\* as the call leaves it
add_nested_model(st, model, foreign_table_name, update_nested_models, pk, foreign_refs) ==
  IF ~IsBaseModel(model) \/ pk \notin DOMAIN model.fields
  THEN [st |-> st, exc |-> "AttributeError", id |-> PyNone, model |-> model]
  ELSE
  Bind(model_in_table(st, foreign_table_name, model.fields[pk]), LAMBDA present :
    IF present.exc # "none"
    THEN [st |-> st, exc |-> present.exc, id |-> PyNone, model |-> model]
    ELSE IF nested_needs_add(present.res, update_nested_models)
         THEN Bind(add(st, foreign_table_name, model, foreign_refs, TRUE, pk), LAMBDA done :
                [st |-> done.st, exc |-> done.exc, id |-> model.fields[pk],
                 model |-> done.model])
    ELSE [st |-> st, exc |-> "none", id |-> model.fields[pk], model |-> model])

\* [add_nested_model(element) for element in field_value], from element i on
add_nested_models(st, items, i, foreign_table_name, update_nested_models, pk) ==
  IF i > Len(items) THEN [st |-> st, exc |-> "none", ids |-> <<>>, items |-> items]
  ELSE Bind(add_nested_model(st, items[i], foreign_table_name, update_nested_models, pk,
                             foreign_keys_of(st.db, foreign_table_name)), LAMBDA one :
         IF one.exc # "none"
         THEN [st |-> one.st, exc |-> one.exc, ids |-> <<>>,
               items |-> [items EXCEPT ![i] = one.model]]
         ELSE Bind(add_nested_models(one.st, [items EXCEPT ![i] = one.model], i + 1,
                                     foreign_table_name, update_nested_models, pk), LAMBDA rest :
                [st |-> rest.st, exc |-> rest.exc, ids |-> <<one.id>> \o rest.ids,
                 items |-> rest.items]))

\* _upsert_model_in_foreign_table(field_value, foreign_table_name,
\* update_nested_models, pk): [st, exc, ids, value], ids the key or the list
\* of keys, value the field's value as the call leaves it
_upsert_model_in_foreign_table(st, field_value, foreign_table_name, update_nested_models, pk) ==
  IF field_value.ty # "list"
  THEN Bind(add_nested_model(st, field_value, foreign_table_name, update_nested_models, pk,
                             foreign_keys_of(st.db, foreign_table_name)), LAMBDA one :
         [st |-> one.st, exc |-> one.exc, ids |-> one.id, value |-> one.model])
  ELSE Bind(add_nested_models(st, field_value.items, 1, foreign_table_name,
                              update_nested_models, pk), LAMBDA all :
         [st |-> all.st, exc |-> all.exc, ids |-> PyList(all.ids),
          value |-> PyList(all.items)])

\* the body of add's loop over model_fields for the field info of the model;
\* acc = [st, data, fks, exc, arg] is the DataBase state, data_to_save,
\* foreign_keys, the exception raised so far and the instance passed to add
\* as the calls made for it so far have left it
add_field(acc, model, info, foreign_tables, update_nested_models) ==
  LET field_name == info.name
      field_value == model.fields[info.name]
  IN
  Bind(_special_conversion(field_value), LAMBDA res :
    IF res.exc # "none" THEN [acc EXCEPT !.exc = res.exc]
    ELSE IF Truthy(res.res)
         THEN [acc EXCEPT !.data = Updated(@, field_name :> res.res)]
    ELSE IF info.kind \in {"Any", "Union"}
         THEN [acc EXCEPT !.data = Updated(@, field_name :> field_value)]
    ELSE IF info.kind = "Literal"
         THEN [acc EXCEPT !.data = Updated(@, field_name :> PyStr(PyStrOf(field_value)))]
    ELSE IF info.kind = "list"
         THEN IF IsModelClass(info.args[1])
              THEN Bind(_get_foreign_table_name(acc.st, field_name, foreign_tables), LAMBDA table :
                     IF table.exc # "none" THEN [acc EXCEPT !.exc = table.exc]
                     ELSE IF table.name \notin DOMAIN acc.st.pks
                          THEN [acc EXCEPT !.exc = "KeyError"]
                     ELSE IF \E k \in 1 .. Len(field_value.items) :
                               acc.st.pks[table.name] \notin DOMAIN field_value.items[k].fields
                          THEN [acc EXCEPT !.exc = "AttributeError",
                                           !.fks = Updated(@, field_name :> table.name)]
                     ELSE [acc EXCEPT
                             !.fks = Updated(@, field_name :> table.name),
                             !.data = Updated(@, field_name :>
                                        PyList([k \in 1 .. Len(field_value.items) |->
                                                  field_value.items[k].fields[acc.st.pks[table.name]]]))])
              ELSE [acc EXCEPT !.data = Updated(@, field_name :>
                                 PyList([k \in 1 .. Len(field_value.items) |->
                                           PyStr(PyStrOf(field_value.items[k]))]))]
    ELSE IF info.kind = "model"
         THEN Bind(_get_foreign_table_name(acc.st, field_name, foreign_tables), LAMBDA table :
                IF table.exc # "none" THEN [acc EXCEPT !.exc = table.exc]
                ELSE IF table.name \notin DOMAIN acc.st.pks
                     THEN [acc EXCEPT !.exc = "KeyError"]
                ELSE Bind(_upsert_model_in_foreign_table(acc.st, field_value, table.name,
                                                         update_nested_models,
                                                         acc.st.pks[table.name]), LAMBDA nested :
                       [st |-> nested.st,
                        data |-> Updated(acc.data, field_name :> nested.ids),
                        fks |-> Updated(acc.fks, field_name :> table.name),
                        exc |-> nested.exc,
                        arg |-> [acc.arg EXCEPT !.fields[field_name] = nested.value]]))
    ELSE acc)

\* add's loop over model_fields from field i on, until an exception is raised
add_fields(acc, model, i, foreign_tables, update_nested_models, n) ==
  IF i > n \/ acc.exc # "none" THEN acc
  ELSE add_fields(add_field(acc, model, model_fields(model.cls)[i], foreign_tables,
                            update_nested_models),
                  model, i + 1, foreign_tables, update_nested_models, n)

\* hasattr(model, "sqlite_repr"): the instance exposes a storable form of
\* its own, kept as a dict on the instance
has_sqlite_repr(model) == "sqlite_repr" \in DOMAIN model

\* data_to_save as add binds it: a new dict from model_dump(), or the very
\* dict the instance exposes as sqlite_repr
data_to_save(model) == IF has_sqlite_repr(model) THEN model.sqlite_repr ELSE model.fields

\* the instance once add's loop has assigned into data_to_save: the dict it
\* exposes as sqlite_repr is that dict
after_assignments(arg, data) ==
  IF has_sqlite_repr(arg) THEN [arg EXCEPT !.sqlite_repr = data] ELSE arg

\* add(tablename, model, foreign_tables, update_nested_models, pk):
\* [st, exc, model], model the instance as the call leaves it
add(st, tablename, model, foreign_tables, update_nested_models, pk) ==
  IF ~IsBaseModel(model) THEN [st |-> st, exc |-> "TypeError", model |-> model]
  ELSE
  Bind(IF tablename \notin DOMAIN st.bm
       THEN _create_new_table(st, tablename, model.cls, pk)
       ELSE st, LAMBDA known :
    IF ~IsInstance(model, known.bm[tablename].basemodel_cls)
    THEN [st |-> known, exc |-> "TypeError", model |-> model]
    ELSE
    Bind(add_fields([st |-> known, data |-> data_to_save(model), fks |-> <<>>,
                     exc |-> "none", arg |-> model],
                    model, 1, foreign_tables, update_nested_models,
                    Len(model_fields(model.cls))), LAMBDA acc :
      IF acc.exc # "none"
      THEN [st |-> acc.st, exc |-> acc.exc, model |-> after_assignments(acc.arg, acc.data)]
      ELSE Bind(upsert(acc.st.db, tablename, acc.data, pk, acc.fks), LAMBDA written :
             [st |-> [acc.st EXCEPT !.db = written.db], exc |-> written.exc,
              model |-> after_assignments(acc.arg, acc.data)])))

-----------------------------------------------------------------------------
(* Reading: model_from_table, _build_basemodel_from_dict and __call__.     *)

RECURSIVE model_from_table(_, _, _)
RECURSIVE _build_basemodel_from_dict(_, _, _, _)
RECURSIVE decode_column(_, _, _, _, _)

\* the body of _build_basemodel_from_dict's loop for one column of the row:
\* [exc, val], val the entry put into d
decode_column(st, cls, field_name, field_value, foreign_refs) ==
  IF field_name \notin FieldNames(cls) THEN [exc |-> "KeyError", val |-> PyNone]
  ELSE
  LET info == FieldInfo(cls, field_name)
      ids == JsonLoads(field_value)
      each == [k \in 1 .. Len(ids.val.items) |->
                 model_from_table(st, foreign_refs[field_name], ids.val.items[k])]
      one == model_from_table(st, foreign_refs[field_name], field_value)
  IN IF field_name \in DOMAIN foreign_refs
     THEN IF info.kind = "list"
          THEN IF ~ids.ok THEN [exc |-> "JSONDecodeError", val |-> PyNone]
               ELSE IF \E k \in 1 .. Len(each) : each[k].exc # "none"
                    THEN [exc |-> each[CHOOSE k \in 1 .. Len(each) : each[k].exc # "none"].exc,
                          val |-> PyNone]
               ELSE [exc |-> "none", val |-> PyList([k \in 1 .. Len(each) |-> each[k].val])]
          ELSE one
     ELSE IF info.kind = "list"
          THEN IF ids.ok THEN [exc |-> "none", val |-> ids.val]
               ELSE [exc |-> "JSONDecodeError", val |-> PyNone]
     ELSE IF info.kind = "Union"
          THEN [exc |-> "none", val |-> convert_value_into_union_types(info.args, field_value)]
     ELSE [exc |-> "none", val |-> field_value]

\* _build_basemodel_from_dict(tablemodel, row, foreign_refs, pk): [exc, val]
_build_basemodel_from_dict(st, tablemodel, row, foreign_refs) ==
  Bind([c \in DOMAIN row |->
          decode_column(st, tablemodel.basemodel_cls, c, row[c], foreign_refs)], LAMBDA d :
    IF \E c \in DOMAIN row : d[c].exc # "none"
    THEN [exc |-> d[CHOOSE c \in DOMAIN row : d[c].exc # "none"].exc, val |-> PyNone]
    ELSE Bind(NewModel(tablemodel.basemodel_cls, [c \in DOMAIN row |-> d[c].val]), LAMBDA built :
           IF built = ValidationError THEN [exc |-> "ValidationError", val |-> PyNone]
           ELSE [exc |-> "none", val |-> built]))

\* model_from_table(tablename, pk_value): [exc, val], val None when no row
\* has the key
model_from_table(st, tablename, pk_value) ==
  IF tablename \notin DOMAIN st.pks \/ tablename \notin DOMAIN st.bm
  THEN [exc |-> "KeyError", val |-> PyNone]
  ELSE
  LET _pk == st.pks[tablename]
      entries == rows_where(st.db, tablename, _pk, pk_value)
  IN IF entries = {} THEN [exc |-> "none", val |-> PyNone]
     ELSE _build_basemodel_from_dict(st, st.bm[tablename], CHOOSE r \in entries : TRUE,
                                     foreign_keys_of(st.db, tablename))

\* what model_from_table can give when the row that comes first among the
\* entries is any of them (the query has no ORDER BY); one result where at
\* most one row matches
model_from_table_results(st, tablename, pk_value) ==
  IF tablename \notin DOMAIN st.pks \/ tablename \notin DOMAIN st.bm
  THEN {[exc |-> "KeyError", val |-> PyNone]}
  ELSE
  LET _pk == st.pks[tablename]
      entries == rows_where(st.db, tablename, _pk, pk_value)
  IN IF entries = {} THEN {[exc |-> "none", val |-> PyNone]}
     ELSE {_build_basemodel_from_dict(st, st.bm[tablename], first,
                                      foreign_keys_of(st.db, tablename)) : first \in entries}

\* __call__ as it would be without its KeyError for an unregistered table
iterate_unchecked(st, tablename) ==
  [exc |-> "none",
   val |-> IF tablename \notin DOMAIN st.bm THEN {}
           ELSE {_build_basemodel_from_dict(st, st.bm[tablename], r,
                                            foreign_keys_of(st.db, tablename)) :
                   r \in rows_of(st.db, tablename)}]

\* __call__(tablename) without filter: [exc, val], val the set of the
\* results of building each row of the table
iterate(st, tablename) ==
  IF tablename \notin DOMAIN st.bm THEN [exc |-> "KeyError", val |-> {}]
  ELSE [exc |-> "none",
        val |-> {_build_basemodel_from_dict(st, st.bm[tablename], r,
                                            foreign_keys_of(st.db, tablename)) :
                   r \in rows_of(st.db, tablename)}]

-----------------------------------------------------------------------------
(* save and load.  A file is written as the database its SQL dump          *)
(* rebuilds; files maps the paths that exist to their content.             *)

\* the names tables can have, in the order of sqlite_master ORDER BY name
\* that iterdump writes them in
TableOrder ==
  <<"Admins", "Cars", "Employee", "Garages", "Persons", "Team", "Test", "Users",
    "__basemodels__">>

\* "".join(conn.iterdump()): the tables of the database, each with its
\* schema and rows
iterdump(db) == db

RECURSIVE executescript(_, _, _)
\* conn.executescript(query) from table i of the dump on: CREATE TABLE and
\* the INSERTs of each table in turn; it stops with OperationalError at the
\* first table that already exists
executescript(db, script, i) ==
  IF i > Len(TableOrder) THEN [db |-> db, exc |-> "none"]
  ELSE IF TableOrder[i] \notin DOMAIN script THEN executescript(db, script, i + 1)
  ELSE IF TableOrder[i] \in DOMAIN db THEN [db |-> db, exc |-> "OperationalError"]
  ELSE executescript(Updated(db, TableOrder[i] :> script[TableOrder[i]]), script, i + 1)

\* the orders in which a SELECT without ORDER BY may yield a set of rows:
\* SQLite leaves the order open
RowOrders(rows) ==
  {order \in [1 .. Cardinality(rows) -> rows] :
     \A i, j \in 1 .. Cardinality(rows) : i # j => order[i] # order[j]}

\* the metadata rows the live and the file database can hold between them
MetadataOf(db, fs, path) ==
  rows_of(db, "__basemodels__") \cup rows_of(IF path \in DOMAIN fs THEN fs[path] ELSE <<>>,
                                           "__basemodels__")

\* db["__basemodels__"].rows when rows come in the given order
metadata_rows(db, order) ==
  SelectSeq(order, LAMBDA r : r \in rows_of(db, "__basemodels__"))

RECURSIVE register_rows(_, _)
\* load's loop over the rows of __basemodels__
register_rows(st, rows) ==
  IF rows = <<>> THEN st
  ELSE LET model == Head(rows)
       IN register_rows(_create_new_table(st, model.table.s,
                                          ResolveClass(model.modulename.s),
                                          JsonLoads(model.pks).val.items[1].s),
                        Tail(rows))

\* load(filename): [st, exc], the metadata rows read in the given order
load(st, fs, path, order) ==
  IF path \notin DOMAIN fs THEN [st |-> st, exc |-> "FileNotFoundError"]
  ELSE Bind(executescript(st.db, fs[path], 1), LAMBDA run :
         IF run.exc # "none" THEN [st |-> [st EXCEPT !.db = run.db], exc |-> run.exc]
         ELSE [st |-> register_rows([st EXCEPT !.db = run.db], metadata_rows(run.db, order)),
               exc |-> "none"])

\* the paths save and load are called with
BaseNames == {"test"}
Paths == BaseNames \cup {b \o ".db" : b \in BaseNames}

\* the number of numbered snapshot files get_unique_filename is taken to
MaxSnapshots == 1

\* the snapshot_suffix values a wrapper is constructed with
SnapshotSuffixes == {"_snapshot.db"}

\* the file names without extension that end in ".db" when it is appended
Stems ==
  BaseNames
  \cup {b \o "_snapshot" : b \in BaseNames}
  \cup {b \o "_snapshot(" \o IntToStr(n) \o ")" : b \in BaseNames, n \in 1 .. MaxSnapshots}

\* filename.endswith(".db")
EndsWithDb(path) == \E b \in Stems : path = b \o ".db"

\* os.path.splitext(filename): <<name, ext>>
splitext(path) ==
  IF EndsWithDb(path) THEN <<CHOOSE b \in Stems : path = b \o ".db", ".db">>
  ELSE <<path, "">>

RECURSIVE unique_from(_, _, _, _, _)
\* get_unique_filename's loop: while os.path.exists(unique_filename)
unique_from(fs, name, ext, counter, unique_filename) ==
  IF unique_filename \notin DOMAIN fs THEN unique_filename
  ELSE unique_from(fs, name, ext, counter + 1,
                   name \o "(" \o IntToStr(counter) \o ")" \o ext)

\* get_unique_filename(filename)
get_unique_filename(fs, path) ==
  unique_from(fs, splitext(path)[1], splitext(path)[2], 1, path)

\* the directory tempfile.mkdtemp() returns, with os.path.sep; the model
\* keeps the directory of the last save only
TmpDir == "tmp/"

\* the backup_suffix values save is called with
BackupSuffixes == {".backup", ".bak"}

\* the paths of the files in that directory
InTmpDir(path) ==
  \E b \in Stems, x \in {""} \cup BackupSuffixes : path = TmpDir \o b \o ".db" \o x

\* the steps of save's try block that the system they run on can fail at
\* ("none": it does not), and the exception each raises
FailPoints == {"none", "connect", "executescript", "copyfile"}
RaisedAt(fail) == IF fail = "copyfile" THEN "OSError" ELSE "OperationalError"

\* a condition save could test in place of its own for taking the backup
never_backup(exists, backup) == FALSE

\* os.path.isfile(filename) and backup
needs_backup(exists, backup) == exists /\ backup

\* a test save could make in place of its own for a persistent database
never_persistent(own) == FALSE

\* self.filename != ":memory:"
is_persistent(own) == own # ":memory:"

\* the messages of logging.warning
PersistentWarning(own) == "database is persistent, already stored in a file: " \o own
BackupWarning(backup_file) == "saved the backup file under '" \o backup_file \o "'"

\* save(filename, backup, backup_suffix) on a DataBase whose filename
\* property is own, failing at the step fail:
\* [fs, exc, log], fs the files after it and log the warnings logged
save(st, fs, own, path, backup, backup_suffix, fail) ==
  IF is_persistent(own)
  THEN [fs |-> fs, exc |-> "none", log |-> <<PersistentWarning(own)>>]
  ELSE LET target == IF EndsWithDb(path) THEN path ELSE path \o ".db"
           tmp_name == TmpDir \o target
           backup_file == tmp_name \o backup_suffix
           outside == [f \in {g \in DOMAIN fs : ~InTmpDir(g)} |-> fs[f]]
           kept == IF needs_backup(target \in DOMAIN fs, backup)
                   THEN Updated(outside, backup_file :> fs[target])
                   ELSE outside
           warned == IF backup THEN <<BackupWarning(backup_file)>> ELSE <<>>
       IN CASE fail = "connect" ->
                 [fs |-> kept, exc |-> RaisedAt(fail), log |-> warned]
            [] fail = "executescript" ->
                 [fs |-> Updated(kept, tmp_name :> <<>>), exc |-> RaisedAt(fail), log |-> warned]
            [] fail = "copyfile" ->
                 [fs |-> Updated(kept, tmp_name :> iterdump(st.db)),
                  exc |-> RaisedAt(fail), log |-> warned]
            [] OTHER ->
                 [fs |-> Updated(kept, (tmp_name :> iterdump(st.db)) @@ (target :> iterdump(st.db))),
                  exc |-> "none", log |-> <<>>]

-----------------------------------------------------------------------------
(* The state machine: one DataBase object and the files on disk.  call     *)
(* records the last method call, its arguments and the exception it ended  *)
(* with ("none" when it returned).                                         *)

\* the DataBase object's state as the helpers take it
State == [bm |-> _basemodels, pks |-> _primary_keys, db |-> _db]

\* no snapshot wrapper has been constructed
NoWrapper ==
  [kind |-> "none", _ctx |-> FALSE, inside |-> FALSE, dbname |-> "",
   snapshot_suffix |-> "", _db_kwargs |-> <<>>]

\* DataBase(): an in-memory database with an empty registry
Init ==
  /\ _basemodels = <<>>
  /\ _primary_keys = <<>>
  /\ _db = <<>>
  /\ db_filename = ":memory:"
  /\ files = <<>>
  /\ wrapper = NoWrapper
  /\ call = [op |-> "init"]

\* db = DataBase(): the program goes on with a new in-memory DataBase object
New ==
  /\ _basemodels' = <<>>
  /\ _primary_keys' = <<>>
  /\ _db' = <<>>
  /\ db_filename' = ":memory:"
  /\ call' = [op |-> "init"]
  /\ UNCHANGED <<files, wrapper>>

\* the database file of a connection: what sqlite3.connect(path) finds, an
\* empty database where there is no file
connect(fs, path) == IF path \in DOMAIN fs THEN fs[path] ELSE <<>>

\* the files once a DataBase whose filename property is own has committed
\* db: the file of a persistent database holds what the connection wrote
committed(fs, own, db) == IF own = ":memory:" THEN fs ELSE Updated(fs, own :> db)

\* DataBase(filename_or_conn): [st, own, fs], a DataBase with an empty
\* registry on the file's database when a file name is given, on an
\* in-memory database when it is None
DataBaseInit(fs, filename_or_conn) ==
  IF filename_or_conn = "None"
  THEN [st |-> [bm |-> <<>>, pks |-> <<>>, db |-> <<>>], own |-> ":memory:", fs |-> fs]
  ELSE [st |-> [bm |-> <<>>, pks |-> <<>>, db |-> connect(fs, filename_or_conn)],
        own |-> filename_or_conn,
        fs |-> committed(fs, filename_or_conn, connect(fs, filename_or_conn))]

\* db = DataBase(path): the program goes on with a DataBase object on a file
Open(path) ==
  \E made \in {DataBaseInit(files, path)} :
     /\ _basemodels' = made.st.bm
     /\ _primary_keys' = made.st.pks
     /\ _db' = made.st.db
     /\ db_filename' = made.own
     /\ files' = made.fs
     /\ call' = [op |-> "open", filename |-> path]
     /\ UNCHANGED wrapper

\* the fields of a class that hold one nested record
NestedFields(cls) == {f \in FieldNames(cls) : FieldInfo(cls, f).kind = "model"}

\* the rows a registered table holds under the key of a record
RowsOfModel(st, tablename, model) ==
  IF tablename \in DOMAIN st.pks /\ st.pks[tablename] \in FieldNames(model.cls)
  THEN rows_where(st.db, tablename, st.pks[tablename], model.fields[st.pks[tablename]])
  ELSE {}

\* what the database holds when add is called, kept with the call so that a
\* state can be compared with the one before it: the rows of the table with
\* the record's key (self); for each field holding a nested record that
\* foreign_tables maps to a registered table, the rows of that table with
\* the nested record's key (nested); and the rows that the tables those
\* tables refer to hold for the nested records' own nested records (deep)
StoredBefore(st, tablename, model, foreign_tables) ==
  IF ~IsBaseModel(model) THEN [self |-> {}, nested |-> <<>>, deep |-> {}]
  ELSE [self |-> IF tablename \in DOMAIN st.pks /\ st.pks[tablename] \in FieldNames(model.cls)
                 THEN rows_where(st.db, tablename, st.pks[tablename],
                                 model.fields[st.pks[tablename]])
                 ELSE {},
        nested |-> [f \in {g \in NestedFields(model.cls) \cap DOMAIN foreign_tables :
                             foreign_tables[g] \in DOMAIN st.pks} |->
                      rows_where(st.db, foreign_tables[f], st.pks[foreign_tables[f]],
                                 model.fields[f].fields[st.pks[foreign_tables[f]]])],
        deep |-> UNION {RowsOfModel(st, foreign_keys_of(st.db, foreign_tables[f])[g],
                                    model.fields[f].fields[g]) :
                          <<f, g>> \in {x \in (NestedFields(model.cls) \cap DOMAIN foreign_tables)
                                               \X {"person", "employee"} :
                                          /\ x[2] \in NestedFields(model.fields[x[1]].cls)
                                          /\ x[2] \in DOMAIN foreign_keys_of(st.db,
                                                                            foreign_tables[x[1]])}}]

\* db.add(tablename, model, foreign_tables, update_nested_models, pk)
Add(tablename, model, foreign_tables, update_nested_models, pk) ==
  \E done \in {add(State, tablename, model, foreign_tables, update_nested_models, pk)} :
     /\ _basemodels' = done.st.bm
     /\ _primary_keys' = done.st.pks
     /\ _db' = done.st.db
     /\ call' = [op |-> "add", tablename |-> tablename, model |-> model,
                 foreign_tables |-> foreign_tables,
                 update_nested_models |-> update_nested_models, pk |-> pk,
                 exc |-> done.exc, after |-> done.model,
                 was |-> StoredBefore(State, tablename, model, foreign_tables)]
     /\ files' = committed(files, db_filename, done.st.db)
     /\ UNCHANGED <<db_filename, wrapper>>

\* db.save(filename, backup, backup_suffix), failing at the step fail
Save(path, backup, backup_suffix, fail) ==
  \E done \in {save(State, files, db_filename, path, backup, backup_suffix, fail)} :
     /\ files' = done.fs
     /\ call' = [op |-> "save", filename |-> path, backup |-> backup,
                 backup_suffix |-> backup_suffix, fail |-> fail,
                 exc |-> done.exc, log |-> done.log]
     /\ UNCHANGED <<_basemodels, _primary_keys, _db, db_filename, wrapper>>

\* db.load(filename); a script that fails leaves its transaction open, so the
\* file of a persistent database is not written
Load(path) ==
  \E order \in RowOrders(MetadataOf(_db, files, path)) :
  \E done \in {load(State, files, path, order)} :
     /\ _basemodels' = done.st.bm
     /\ _primary_keys' = done.st.pks
     /\ _db' = done.st.db
     /\ call' = [op |-> "load", filename |-> path, exc |-> done.exc]
     /\ files' = IF done.exc = "none" THEN committed(files, db_filename, done.st.db) ELSE files
     /\ UNCHANGED <<db_filename, wrapper>>

\* list(db(tablename)): the instances the generator yields
Iterate(tablename) ==
  \E done \in {iterate(State, tablename)} :
     /\ call' = [op |-> "iterate", tablename |-> tablename, exc |-> done.exc, val |-> done.val]
     /\ UNCHANGED <<_basemodels, _primary_keys, _db, db_filename, files, wrapper>>

\* db.model_from_table(tablename, pk_value)
ModelFromTable(tablename, pk_value) ==
  \E done \in model_from_table_results(State, tablename, pk_value) :
     /\ call' = [op |-> "model_from_table", tablename |-> tablename, pk_value |-> pk_value,
                 exc |-> done.exc, val |-> done.val]
     /\ UNCHANGED <<_basemodels, _primary_keys, _db, db_filename, files, wrapper>>

\* db.model_in_table(tablename, pk_value)
ModelInTable(tablename, pk_value) ==
  \E done \in {model_in_table(State, tablename, pk_value)} :
     /\ call' = [op |-> "model_in_table", tablename |-> tablename, pk_value |-> pk_value,
                 exc |-> done.exc, val |-> PyBool(done.res)]
     /\ UNCHANGED <<_basemodels, _primary_keys, _db, db_filename, files, wrapper>>

\* a test __enter__ could make in place of its own
never_entered(_ctx) == FALSE

\* self._ctx is not None
is_entered(_ctx) == _ctx

\* FailSafeDataBase(dbname, snapshot_suffix, **kwargs) and
\* DB_Handler(dbname, snapshot_suffix): a new wrapper, none of whose scopes
\* has been entered; dbname ends with ".db"
Wrap(kind, dbname, snapshot_suffix, kwargs) ==
  /\ ~wrapper.inside
  /\ wrapper' = [kind |-> kind, _ctx |-> FALSE, inside |-> FALSE,
                 dbname |-> IF EndsWithDb(dbname) THEN dbname ELSE dbname \o ".db",
                 snapshot_suffix |-> snapshot_suffix, _db_kwargs |-> kwargs]
  /\ call' = [op |-> "wrap"]
  /\ UNCHANGED <<_basemodels, _primary_keys, _db, db_filename, files>>

\* _contextmanager() up to its yield: [st, own, fs, exc], a new DataBase
\* that has loaded the file dbname if there is one
_contextmanager(fs, dbname, kwargs, order) ==
  Bind(DataBaseInit(fs, IF "filename_or_conn" \in DOMAIN kwargs
                        THEN kwargs["filename_or_conn"] ELSE "None"), LAMBDA made :
    IF dbname \notin DOMAIN made.fs
    THEN [st |-> made.st, own |-> made.own, fs |-> made.fs, exc |-> "none"]
    ELSE Bind(load(made.st, made.fs, dbname, order), LAMBDA loaded :
           [st |-> loaded.st, own |-> made.own,
            fs |-> IF loaded.exc = "none" THEN committed(made.fs, made.own, loaded.st.db)
                   ELSE made.fs,
            exc |-> loaded.exc]))

\* with wrapper as db: __enter__(); inside tells that the with statement has
\* entered its body and not left it
Enter ==
  /\ wrapper.kind # "none"
  /\ IF is_entered(wrapper._ctx)
     THEN /\ call' = [op |-> "enter", exc |-> "RuntimeError"]
          /\ UNCHANGED <<_basemodels, _primary_keys, _db, db_filename, files, wrapper>>
     ELSE \E order \in RowOrders(MetadataOf(connect(files, wrapper.dbname), files,
                                             IF "filename_or_conn" \in DOMAIN wrapper._db_kwargs
                                             THEN wrapper._db_kwargs["filename_or_conn"]
                                             ELSE wrapper.dbname)) :
          \E ctx \in {_contextmanager(files, wrapper.dbname, wrapper._db_kwargs, order)} :
            /\ _basemodels' = ctx.st.bm
            /\ _primary_keys' = ctx.st.pks
            /\ _db' = ctx.st.db
            /\ db_filename' = ctx.own
            /\ files' = ctx.fs
            /\ wrapper' = [wrapper EXCEPT !._ctx = TRUE, !.inside = ctx.exc = "none"]
            /\ call' = [op |-> "enter", exc |-> ctx.exc]

\* the end of the with statement's body, with the exception exc_type raised
\* in it ("none": the body returned), or a call of the method on a wrapper
\* that was never entered: __exit__(exc_type, exc, tb).  The generator
\* re-raises what is thrown into it, so the exception goes on to the caller
\* unless save raises one of its own.  The snapshot's name is kept to the
\* first MaxSnapshots numbered names.
Exit(exc_type) ==
  /\ wrapper.kind # "none"
  /\ wrapper.inside \/ ~wrapper._ctx
  /\ IF ~wrapper._ctx
     THEN /\ call' = [op |-> "exit", exc_type |-> exc_type, exc |-> "AssertionError", log |-> <<>>]
          /\ UNCHANGED <<files, wrapper>>
     ELSE IF exc_type = "none"
          THEN /\ call' = [op |-> "exit", exc_type |-> exc_type, exc |-> "none", log |-> <<>>]
               /\ wrapper' = [wrapper EXCEPT !.inside = FALSE]
               /\ UNCHANGED files
     ELSE \E snapshot_path \in {get_unique_filename(files, splitext(wrapper.dbname)[1]
                                                             \o wrapper.snapshot_suffix)} :
            /\ EndsWithDb(snapshot_path)
            /\ \E done \in {save(State, files, db_filename, snapshot_path, TRUE, ".backup", "none")} :
                 /\ files' = done.fs
                 /\ call' = [op |-> "exit", exc_type |-> exc_type,
                             exc |-> IF done.exc = "none" THEN exc_type ELSE done.exc,
                             log |-> done.log]
            /\ wrapper' = [wrapper EXCEPT !.inside = FALSE]
  /\ UNCHANGED <<_basemodels, _primary_keys, _db, db_filename>>

-----------------------------------------------------------------------------
(* Inputs.                                                                 *)

\* the primary-key values "<prefix>1" .. "<prefix>MaxKeys"
Keys(prefix) == {prefix \o IntToStr(i) : i \in 1 .. MaxKeys}

NameValues == {"Bo", "Al"}

PersonValues == {PyModel("Person", [uuid |-> PyStr(k), name |-> PyStr(nm)]) :
                   k \in Keys("p"), nm \in NameValues}


StudentValues == {PyModel("Student", [uuid |-> PyStr("p1"), name |-> PyStr("Al")])}

BasicValues ==
  {PyModel("Basic", [uuid |-> PyStr("x1"), ex_str |-> PyStr("1"), ex_int |-> PyInt(i),
                     ex_float |-> PyFloat(f), ex_bool |-> PyBool(b), ex_list |-> PyList(l)]) :
     i \in 0 .. MaxInt, f \in {10, 15}, b \in BOOLEAN, l \in {<<>>, <<PyStr("a"), PyStr("1")>>}}

\* values that are no BaseModel instance
PlainValues == {PyInt(1)}

-----------------------------------------------------------------------------
(* Spec: records without nested records, of several types, and values that *)
(* are no records, added to one table under either field of Person as the  *)
(* primary key.                                                            *)

\* the DataBase object's state after a step
StateNext == [bm |-> _basemodels', pks |-> _primary_keys', db |-> _db']

CoreTables == {"Users"}
CoreModels == PersonValues \cup StudentValues \cup BasicValues \cup PlainValues

\* pk names a field of the record added
Next ==
  \E t \in CoreTables, m \in CoreModels :
    \E pk \in IF IsBaseModel(m) THEN {"uuid", "name"} \cap FieldNames(m.cls) ELSE {"uuid"} :
      Add(t, m, <<>>, TRUE, pk)

Spec == Init /\ [][Next]_vars

\* a record whose fields are scalars or lists of strings
IsFlat(model) ==
  /\ IsBaseModel(model)
  /\ \A f \in FieldNames(model.cls) :
       \/ FieldInfo(model.cls, f).kind \in {"str", "int", "float", "bool"}
       \/ FieldInfo(model.cls, f).kind = "list" /\ FieldInfo(model.cls, f).args = <<"str">>

\* C1: a flat record added to a table that is registered with the record's
\* own type (the table was unregistered or registered with it before) is
\* stored when the call keys it by the table's primary key, and whenever add
\* returns, model_from_table under the record's key and the iteration over
\* the table both give an instance of the record's type equal to the record.
RoundTripFlat ==
  (/\ call.op = "add"
   /\ IsFlat(call.model)
   /\ _basemodels[call.tablename].basemodel_cls = call.model.cls)
  => /\ call.pk = _primary_keys[call.tablename] => call.exc = "none"
     /\ call.exc = "none" =>
          LET found == [exc |-> "none", val |-> call.model]
          IN /\ model_from_table(State, call.tablename,
                                 call.model.fields[_primary_keys[call.tablename]]) = found
             /\ iterate(State, call.tablename).exc = "none"
             /\ found \in iterate(State, call.tablename).val

\* a record with a true bool and a non-empty list of strings has been added
\* over a stored record with the same key and other values
WitnessRoundTripFlat ==
  /\ call.op = "add" /\ call.exc = "none"
  /\ call.model.cls = "Basic"
  /\ call.model.fields.ex_bool = PyBool(TRUE)
  /\ Len(call.model.fields.ex_list.items) = 2
  /\ call.was.self # {}
  /\ call.was.self # rows_of(_db, call.tablename)
  /\ model_from_table(State, call.tablename, call.model.fields.uuid).val = call.model

\* C3: a successful add into a table whose rows hold no record with the
\* record's primary-key value raises count_entries_in_table by exactly 1; one
\* whose key is stored leaves the count as it is and replaces the row's
\* values; and the count is the number of distinct primary-key values stored.
UpsertCounting ==
  [][(call'.op = "add" /\ call'.exc = "none") =>
       LET T == call'.tablename
           m == call'.model
           key == _primary_keys'[T]
           stored == T \in DOMAIN _primary_keys /\ model_in_table(State, T, m).res
           before == count_entries_in_table(State, T).res
           after == count_entries_in_table(StateNext, T).res
       IN /\ after = Cardinality({r[key] : r \in rows_of(_db', T)})
          /\ IF stored
             THEN /\ after = before
                  /\ model_from_table(StateNext, T, m.fields[key])
                       = [exc |-> "none",
                          val |-> PyModel(_basemodels'[T].basemodel_cls, m.fields)]
             ELSE after = before + 1]_vars

\* the table holds a row for every key, and the last add has replaced the
\* values of a row whose key was stored
WitnessUpsertCounting ==
  /\ call.op = "add" /\ call.exc = "none"
  /\ count_entries_in_table(State, call.tablename).res = MaxKeys
  /\ call.was.self # {}
  /\ call.was.self # rows_where(_db, call.tablename, _primary_keys[call.tablename],
                                call.model.fields[_primary_keys[call.tablename]])

\* C4: add raises TypeError for every value that is no BaseModel instance,
\* and for every record whose type differs from the type the table was
\* registered with before the call.
TypeRejection ==
  call.op = "add" =>
    /\ ~IsBaseModel(call.model) => call.exc = "TypeError"
    /\ (IsBaseModel(call.model)
        /\ _basemodels[call.tablename].basemodel_cls # call.model.cls)
       => call.exc = "TypeError"

\* C23: an add into a table registered before the call, with a record whose
\* class is not the class the table is registered with (a subclass of it
\* included), raises TypeError and leaves the registry and the database as
\* they were.
ExactTypeMatch ==
  [][(/\ call'.op = "add"
      /\ IsBaseModel(call'.model)
      /\ call'.tablename \in DOMAIN _basemodels
      /\ _basemodels[call'.tablename].basemodel_cls # call'.model.cls)
     => /\ call'.exc = "TypeError"
        /\ UNCHANGED <<_basemodels, _primary_keys, _db>>]_vars

\* C25: an add of a flat record of the table's type into a table registered
\* before the call is an upsert keyed by the table's registered primary-key
\* field, whatever pk the call passes: it returns, the rows with other
\* values in that field are as they were, one row holds the record's value
\* in it, and model_from_table under that value gives the record.
UpsertKeyIsRegisteredKey ==
  [][(/\ call'.op = "add"
      /\ IsFlat(call'.model)
      /\ call'.tablename \in DOMAIN _basemodels
      /\ _basemodels[call'.tablename].basemodel_cls = call'.model.cls)
     => LET T == call'.tablename
            m == call'.model
            key == _primary_keys[T]
            old == rows_where(_db, T, key, m.fields[key])
            new == rows_where(_db', T, key, m.fields[key])
        IN /\ call'.exc = "none"
           /\ Cardinality(new) = 1
           /\ rows_of(_db', T) \ new = rows_of(_db, T) \ old
           /\ model_from_table(StateNext, T, m.fields[key])
                = [exc |-> "none", val |-> m]]_vars

-----------------------------------------------------------------------------
(* SpecFields: records of the class Example of tests/test_fields_extends   *)
(* (Extends here), with a Literal, a List[Any], an Any, an Optional[str]   *)
(* and a Union[str, int] field, added to the table Test.                   *)

HelloValues == {PyModel("Hello", [name |-> PyStr(nm)]) : nm \in {"a", "b"}}

\* the lists the field ex_list_any holds
ListAnyValues ==
  {<<PyStr("a")>>,
   <<PyModel("Hello", [name |-> PyStr("a")]), PyModel("Hello", [name |-> PyStr("b")])>>,
   <<PyModel("Hello", [name |-> PyStr("a")]), PyStr("a")>>,
   <<PyStr("a"), PyModel("Hello", [name |-> PyStr("a")])>>}

ExtendsValues ==
  {PyModel("Extends", [uuid |-> PyStr("x1"), ex_Literal |-> PyStr("hi"),
                       ex_list_any |-> PyList(l), ex_any |-> PyStr("a"),
                       ex_optional |-> o, ex_union |-> u]) :
     l \in ListAnyValues, o \in {PyNone, PyStr("a")}, u \in {PyStr("a"), PyStr("1"), PyInt(1)}}

NextFields == \E m \in ExtendsValues : Add("Test", m, <<>>, TRUE, "uuid")

SpecFields == Init /\ [][NextFields]_vars

\* the fields of a class annotated with a Union
UnionFields(cls) == {f \in FieldNames(cls) : FieldInfo(cls, f).kind = "Union"}

\* C7: after a successful add of a record with union fields, model_from_table
\* under the record's key returns a record whose union fields have the value
\* and the member type they were stored with.
UnionRoundTrip ==
  (call.op = "add" /\ call.exc = "none" /\ UnionFields(call.model.cls) # {}) =>
    LET got == model_from_table(State, call.tablename,
                                call.model.fields[_primary_keys[call.tablename]])
    IN /\ got.exc = "none"
       /\ got.val.ty = "model"
       /\ \A f \in UnionFields(call.model.cls) : got.val.fields[f] = call.model.fields[f]

\* the runtime types of the elements of a list
RuntimeTypes(items) == {TypeOf(items[i]) : i \in 1 .. Len(items)}

\* C8: an add of a record with a field holding a non-empty list of elements
\* of more than one runtime type, one of them with an enabled custom
\* conversion, raises ValueError and leaves the database as it was; a
\* successful add of a record with a field holding a list of elements of one
\* custom-conversion type stores the list of convert(e) of its elements.
CustomConversionOfLists ==
  [][(call'.op = "add" /\ IsBaseModel(call'.model)) =>
       \A f \in FieldNames(call'.model.cls) :
         LET v == call'.model.fields[f]
             T == call'.tablename
         IN (v.ty = "list" /\ Len(v.items) > 0) =>
              /\ (Cardinality(RuntimeTypes(v.items)) > 1
                  /\ \E c \in RuntimeTypes(v.items) : special_possible(c))
                 => /\ call'.exc = "ValueError"
                    /\ UNCHANGED <<_basemodels, _primary_keys, _db>>
              /\ (Cardinality(RuntimeTypes(v.items)) = 1
                  /\ (\A c \in RuntimeTypes(v.items) : special_possible(c))
                  /\ call'.exc = "none")
                 => \A r \in rows_where(_db', T, _primary_keys'[T],
                                        call'.model.fields[_primary_keys'[T]]) :
                      r[f] = JsonDumps(PyList([i \in 1 .. Len(v.items) |-> SQConvert(v.items[i])]))
     ]_vars

-----------------------------------------------------------------------------
(* SpecNested: the classes Person, Employee and Team of tests/_helper.py,  *)
(* each added to a table of its own, Employee and Team with their nested   *)
(* record's table in foreign_tables and with update_nested_models either   *)
(* way.                                                                    *)

EmployeeValues ==
  {PyModel("Employee", [uuid |-> PyStr("e1"),
                        person |-> PyModel("Person", [uuid |-> PyStr("p1"), name |-> PyStr(nm)])]) :
     nm \in NameValues}

TeamValues == {PyModel("Team", [uuid |-> PyStr("t1"), employee |-> e]) : e \in EmployeeValues}

NextNested ==
  \/ \E m \in PersonValues : Add("Persons", m, <<>>, TRUE, "uuid")
  \/ \E m \in EmployeeValues, ft \in {<<>>, [person |-> "Persons"]}, u \in BOOLEAN :
       Add("Employee", m, ft, u, "uuid")
  \/ \E m \in TeamValues, u \in BOOLEAN : Add("Team", m, [employee |-> "Employee"], u, "uuid")

SpecNested == Init /\ [][NextNested]_vars

NestedOverwriteEnabled ==
  (/\ call.op = "add" /\ call.exc = "none"
   /\ IsBaseModel(call.model)
   /\ call.update_nested_models) =>
    /\ \A f \in NestedFields(call.model.cls) \cap DOMAIN call.foreign_tables :
         LET target == call.foreign_tables[f]
             n == call.model.fields[f]
         IN model_from_table(State, target, n.fields[_primary_keys[target]])
              = [exc |-> "none", val |-> n]
    /\ model_from_table(State, call.tablename,
                        call.model.fields[_primary_keys[call.tablename]])
         = [exc |-> "none", val |-> call.model]

\* a Team has been added with update_nested_models = True whose Employee was
\* stored and whose Employee's Person was stored with other values
WitnessNestedOverwriteEnabled ==
  /\ call.op = "add" /\ call.exc = "none"
  /\ call.tablename = "Team"
  /\ call.update_nested_models
  /\ "employee" \in DOMAIN call.was.nested
  /\ call.was.nested.employee # {}
  /\ call.was.deep # {}
  /\ call.was.deep # RowsOfModel(State, "Persons", call.model.fields.employee.fields.person)

\* C6: after a successful add with update_nested_models = False, for each
\* nested record whose key was stored in its target table when add was
\* called, the table holds under that key exactly the rows it held, and the
\* parent's row holds the key in the field's column.
NestedOverwriteDisabled ==
  (/\ call.op = "add" /\ call.exc = "none"
   /\ IsBaseModel(call.model)
   /\ ~call.update_nested_models) =>
    \A f \in DOMAIN call.was.nested :
      call.was.nested[f] # {} =>
        LET target == call.foreign_tables[f]
            k == call.model.fields[f].fields[_primary_keys[target]]
        IN /\ rows_where(_db, target, _primary_keys[target], k) = call.was.nested[f]
           /\ RowsOfModel(State, call.tablename, call.model) # {}
           /\ \A r \in RowsOfModel(State, call.tablename, call.model) : r[f] = k

\* an Employee has been added with update_nested_models = False whose person
\* was stored under another name, and the stored person still has that name
WitnessNestedOverwriteDisabled ==
  /\ call.op = "add" /\ call.exc = "none"
  /\ call.tablename = "Employee"
  /\ ~call.update_nested_models
  /\ "person" \in DOMAIN call.was.nested
  /\ call.was.nested.person # {}
  /\ model_from_table(State, "Persons", call.model.fields.person.fields.uuid).val
       # call.model.fields.person

\* C26: an add that raises TypeError, KeyError or ValueError leaves the
\* registry, the metadata table and the rows of every table as they were
\* before the call.
FailedAddIsAtomic ==
  [][(call'.op = "add" /\ call'.exc \in {"TypeError", "KeyError", "ValueError"})
     => UNCHANGED <<_basemodels, _primary_keys, _db>>]_vars

-----------------------------------------------------------------------------
(* SpecSave: Person records added to the tables Admins and Users of an     *)
(* in-memory DataBase that is saved to a file, replaced by a new DataBase  *)
(* and loaded from the file.                                               *)

SaveTables == {"Admins", "Users"}
SaveModels == {m \in PersonValues : m.fields.uuid = PyStr("p1")}

NextSave ==
  \/ \E t \in SaveTables, m \in SaveModels : Add(t, m, <<>>, TRUE, "uuid")
  \/ \E f \in Paths, b \in BOOLEAN : Save(f, b, ".backup", "none")
  \/ New
  \/ \E f \in Paths : Load(f)

SpecSave == Init /\ [][NextSave]_vars

\* C9: the metadata table __basemodels__ holds exactly one row for each
\* registered table name, also when two tables are registered with the same
\* record type.
MetadataPerTable ==
  LET meta == rows_of(_db, "__basemodels__")
  IN /\ {r.table.s : r \in meta} = DOMAIN _basemodels
     /\ Cardinality(meta) = Cardinality(DOMAIN _basemodels)

\* a DataBase() with nothing registered
FreshState == [bm |-> <<>>, pks |-> <<>>, db |-> <<>>]

\* C10: in every state an add has produced, save to a path followed by load
\* of that path on a fresh DataBase gives the same registered tables with
\* the same record type and primary key each, the same row count per table
\* and the same records.
SaveLoadRoundTrip ==
  call.op = "add" =>
    LET saved == save(State, files, ":memory:", "test", TRUE, ".backup", "none")
    IN
    \A order \in RowOrders(rows_of(_db, "__basemodels__")) :
    LET fresh == load(FreshState, saved.fs, "test.db", order)
    IN /\ saved.exc = "none"
       /\ fresh.exc = "none"
       /\ DOMAIN fresh.st.bm = DOMAIN _basemodels
       /\ \A t \in DOMAIN fresh.st.bm \cap DOMAIN _basemodels :
            /\ fresh.st.bm[t].basemodel_cls = _basemodels[t].basemodel_cls
            /\ fresh.st.pks[t] = _primary_keys[t]
       /\ \A t \in table_names(_db) :
            /\ count_entries_in_table(fresh.st, t) = count_entries_in_table(State, t)
            /\ t # "__basemodels__" => iterate(fresh.st, t) = iterate(State, t)

\* the file save writes for a path: ".db" is appended where it is missing
TargetOf(path) == IF EndsWithDb(path) THEN path ELSE path \o ".db"

\* C12: load of a file on an in-memory database that holds stored records,
\* the file holding other tables than the database, returns without an
\* exception; afterwards every record stored before is still retrievable and
\* every table of the file is registered with its rows retrievable.
LoadAddsToExisting ==
  [][(/\ call'.op = "load"
      /\ call'.filename \in DOMAIN files
      /\ db_filename = ":memory:"
      /\ \E t \in DOMAIN _basemodels : rows_of(_db, t) # {}
      /\ DOMAIN files[call'.filename] \cap DOMAIN _db \subseteq {"__basemodels__"})
     => /\ call'.exc = "none"
        /\ \A t \in DOMAIN _basemodels :
             /\ iterate(State, t).val \subseteq iterate(StateNext, t).val
        /\ \A t \in DOMAIN files[call'.filename] \ {"__basemodels__"} :
             /\ t \in DOMAIN _basemodels'
             /\ rows_of(files[call'.filename], t) \subseteq rows_of(_db', t)]_vars

-----------------------------------------------------------------------------
(* SpecFile: Person records added to the table Users of a DataBase that is *)
(* in memory or opened on the file test.db; it is saved, with a failure at *)
(* any step of the write, loaded, iterated and looked up by key.           *)

FileModels == {m \in PersonValues : m.fields.uuid = PyStr("p1")}
FileTables == {"Users", "Ghosts", "__basemodels__"}
LookupValues == {PyStr(k) : k \in Keys("p")} \cup {m \in PersonValues : m.fields.name = PyStr("Bo")}

NextFile ==
  \/ \E m \in FileModels : Add("Users", m, <<>>, TRUE, "uuid")
  \/ New
  \/ Open("test.db")
  \/ \E f \in Paths, b \in BOOLEAN, x \in BackupSuffixes, fail \in FailPoints : Save(f, b, x, fail)
  \/ \E f \in Paths : Load(f)
  \/ \E t \in FileTables : Iterate(t)
  \/ \E t \in FileTables \cap DOMAIN _primary_keys, k \in LookupValues : ModelFromTable(t, k)
  \/ \E t \in FileTables \cap DOMAIN _primary_keys, k \in LookupValues : ModelInTable(t, k)

SpecFile == Init /\ [][NextFile]_vars

\* C11: after DataBase(path) on a file that holds stored tables, every table
\* the file's metadata table records is registered and can be iterated.
HydrationOnOpen ==
  call.op = "open" =>
    \A r \in rows_of(_db, "__basemodels__") :
      /\ r.table.s \in DOMAIN _basemodels
      /\ iterate(State, r.table.s).exc = "none"

\* C13: a save with backup that fails after the destination existed re-raises
\* the exception of the failing step, leaves the backup file in place with
\* the content the destination had, and logs one warning naming that file.
SaveFailureKeepsBackup ==
  [][(/\ call'.op = "save"
      /\ call'.exc # "none"
      /\ call'.backup
      /\ TargetOf(call'.filename) \in DOMAIN files)
     => LET backup_file == TmpDir \o TargetOf(call'.filename) \o call'.backup_suffix
        IN /\ call'.exc = RaisedAt(call'.fail)
           /\ backup_file \in DOMAIN files'
           /\ files'[backup_file] = files[TargetOf(call'.filename)]
           /\ call'.log = <<BackupWarning(backup_file)>>]_vars

WitnessSaveFailureKeepsBackup ==
  /\ call.op = "save"
  /\ call.exc = "OSError"
  /\ call.backup
  /\ TmpDir \o TargetOf(call.filename) \o call.backup_suffix \in DOMAIN files
  /\ files[TmpDir \o TargetOf(call.filename) \o call.backup_suffix] # <<>>
  /\ files[TmpDir \o TargetOf(call.filename) \o call.backup_suffix] # _db

\* C14: save on a DataBase opened on a file returns without an exception,
\* logs one warning and leaves every file as it is, for every path, backup
\* flag and backup suffix.
SavePersistentNoOp ==
  [][(call'.op = "save" /\ db_filename # ":memory:")
     => /\ call'.exc = "none"
        /\ call'.log = <<PersistentWarning(db_filename)>>
        /\ files' = files
        /\ UNCHANGED <<_basemodels, _primary_keys, _db, db_filename>>]_vars

WitnessSavePersistentNoOp ==
  /\ call.op = "save"
  /\ db_filename = "test.db"
  /\ rows_of(_db, "Users") # {}
  /\ call.backup
  /\ "test.db" \in DOMAIN files

\* the rows of a table that hold the key a lookup is made with
RowsWithKey(st, tablename, pk_value) ==
  {r \in rows_of(st.db, tablename) :
     r[st.pks[tablename]] = IF IsBaseModel(pk_value) THEN pk_value.fields[st.pks[tablename]]
                            ELSE pk_value}

IterateUnregistered ==
  [][(call'.op = "iterate" /\ call'.tablename \notin DOMAIN _basemodels)
     => /\ call'.exc = "KeyError"
        /\ call'.val = {}]_vars

WitnessIterateUnregistered ==
  /\ call.op = "iterate"
  /\ call.tablename \notin DOMAIN _basemodels
  /\ rows_of(_db, call.tablename) # {}
  /\ call.exc = "KeyError"

-----------------------------------------------------------------------------
(* SpecForeign: the classes Person and Employee, Car and Garage of         *)
(* tests/_helper.py; an Employee holds one nested record and a Garage a    *)
(* list of them.  Each class has a table of its own; Employee and Garage   *)
(* are added with no foreign_tables entry, with their nested record's      *)
(* table, or with the unregistered table __basemodels__ as the entry.      *)

ForeignPersons == {m \in PersonValues : m.fields.uuid = PyStr("p1") /\ m.fields.name = PyStr("Bo")}

ForeignEmployees ==
  {PyModel("Employee", [uuid |-> PyStr("e1"), person |-> p]) : p \in ForeignPersons}

\* the car with the i-th series number
CarOf(i) ==
  PyModel("Car", [series_number |-> PyStr("c" \o IntToStr(i)), model |-> PyStr("Golf")])

CarValues == {CarOf(i) : i \in 1 .. MaxKeys}

\* the lists of cars a Garage is made with: none, one, or two different ones
CarLists ==
  {<<>>} \cup {<<c>> : c \in CarValues}
  \cup {<<CarOf(x[1]), CarOf(x[2])>> : x \in {y \in (1 .. MaxKeys) \X (1 .. MaxKeys) : y[1] < y[2]}}

GarageValues == {PyModel("Garage", [uuid |-> PyStr("g1"), cars |-> PyList(cs)]) : cs \in CarLists}

\* the foreign_tables arguments for a field and its nested records' table
ForeignMaps(field, table) == {<<>>, field :> table, field :> "__basemodels__"}

NextForeign ==
  \/ \E m \in ForeignPersons : Add("Persons", m, <<>>, TRUE, "uuid")
  \/ \E m \in ForeignEmployees, ft \in ForeignMaps("person", "Persons"), u \in BOOLEAN :
       Add("Employee", m, ft, u, "uuid")
  \/ \E m \in CarValues : Add("Cars", m, <<>>, TRUE, "series_number")
  \/ \E m \in GarageValues, ft \in ForeignMaps("cars", "Cars"), u \in BOOLEAN :
       Add("Garages", m, ft, u, "uuid")

SpecForeign == Init /\ [][NextForeign]_vars

\* the fields of a class declared as a list of records
ListFields(cls) ==
  {f \in FieldNames(cls) : FieldInfo(cls, f).kind = "list" /\ IsModelClass(FieldInfo(cls, f).args[1])}

ListOfNestedRecords ==
  (call.op = "add" /\ call.exc = "none" /\ IsBaseModel(call.model)) =>
    \A f \in ListFields(call.model.cls) :
      /\ \A i \in 1 .. Len(call.model.fields[f].items) :
           RowsOfModel(State, call.foreign_tables[f], call.model.fields[f].items[i]) # {}
      /\ model_from_table(State, call.tablename, call.model.fields[call.pk])
           = [exc |-> "none", val |-> call.model]

-----------------------------------------------------------------------------
(* SpecWrapper: a FailSafeDataBase or a DB_Handler for the file test.db,   *)
(* the FailSafeDataBase with or without a file name for its DataBase; its  *)
(* scope is entered, entered again, and left with or without an exception, *)
(* while Person records are added to the table Users and the DataBase is   *)
(* saved to test.db.                                                       *)

WrapperKinds == {"FailSafeDataBase", "DB_Handler"}

\* the keyword arguments a wrapper of a kind passes on to DataBase
WrapperKwargs(kind) ==
  IF kind = "FailSafeDataBase" THEN {<<>>, "filename_or_conn" :> "data.db"} ELSE {<<>>}

WrapperModels == {m \in FileModels : m.fields.name = PyStr("Bo")}

\* the exceptions raised in the body of the with statement
ExcTypes == {"none", "KeyError", "DummyException"}

NextWrapper ==
  \/ \E kind \in WrapperKinds, x \in SnapshotSuffixes :
       \E kwargs \in WrapperKwargs(kind) : Wrap(kind, "test", x, kwargs)
  \/ Enter
  \/ \E e \in ExcTypes : Exit(e)
  \/ \E m \in WrapperModels : Add("Users", m, <<>>, TRUE, "uuid")
  \/ Save("test", TRUE, ".backup", "none")

SpecWrapper == Init /\ [][NextWrapper]_vars

\* the name the snapshot of a wrapper is to have: the database name without
\* ".db" followed by the suffix, or with (n) before ".db" for the first n
\* from 1 on for which no such file exists
SnapshotName(fs, dbname, snapshot_suffix) ==
  LET first == splitext(dbname)[1] \o snapshot_suffix
      numbered(n) == splitext(first)[1] \o "(" \o IntToStr(n) \o ")" \o ".db"
  IN IF first \notin DOMAIN fs THEN first
     ELSE numbered(CHOOSE n \in 1 .. MaxSnapshots :
                     /\ numbered(n) \notin DOMAIN fs
                     /\ \A k \in 1 .. n - 1 : numbered(k) \in DOMAIN fs)

\* C18: when the body of the scope raises, exit writes one new file outside
\* the temporary directory, named as SnapshotName says and holding the
\* database, leaves every file that existed as it was, and ends with the
\* exception of the body, whatever the wrapper was constructed with.
SnapshotOnFailure ==
  [][(call'.op = "exit" /\ wrapper.inside /\ call'.exc_type # "none")
     => LET expected == SnapshotName(files, wrapper.dbname, wrapper.snapshot_suffix)
        IN /\ {f \in DOMAIN files' \ DOMAIN files : ~InTmpDir(f)} = {expected}
           /\ files'[expected] = _db
           /\ \A f \in DOMAIN files : ~InTmpDir(f) => files'[f] = files[f]
           /\ call'.exc = call'.exc_type]_vars

\* C19: __enter__ on a wrapper whose scope is active raises RuntimeError and
\* changes neither the wrapper nor its DataBase nor a file; the exit of the
\* active scope that follows ends the scope, and when the body raised
\* nothing it raises nothing and leaves the DataBase and the files alone.
NotReentrant ==
  [][/\ (call'.op = "enter" /\ wrapper.inside)
          => /\ call'.exc = "RuntimeError"
             /\ UNCHANGED <<_basemodels, _primary_keys, _db, db_filename, files, wrapper>>
     /\ (call.op = "enter" /\ call.exc = "RuntimeError" /\ wrapper.inside /\ call'.op = "exit")
          => /\ ~wrapper'.inside
             /\ UNCHANGED <<_basemodels, _primary_keys, _db, db_filename>>
             /\ call'.exc_type = "none" => (call'.exc = "none" /\ files' = files)]_vars

WitnessNotReentrant ==
  /\ call.op = "enter"
  /\ call.exc = "RuntimeError"
  /\ wrapper.inside
  /\ rows_of(_db, "Users") # {}
  /\ wrapper.dbname \in DOMAIN files
  /\ files[wrapper.dbname] # _db

-----------------------------------------------------------------------------
(* SpecUnion: convert_value_into_union_types applied to the values a       *)
(* column can hand back and to unions of two or three of the scalar types  *)
(* and None, in every declaration order (tests/test_misc.py).              *)

UnionMemberTypes == {"str", "int", "float", "bool", "NoneType"}

\* one call of convert_value_into_union_types(union_type, value)
Convert(union_type, value) ==
  /\ call' = [op |-> "convert_value_into_union_types", union_type |-> union_type,
              value |-> value, res |-> convert_value_into_union_types(union_type, value)]
  /\ UNCHANGED <<_basemodels, _primary_keys, _db, db_filename, files, wrapper>>

\* get_args of the unions: two or three distinct members in some order
NextUnion ==
  \E u \in {u \in [1 .. 2 -> UnionMemberTypes] \cup [1 .. 3 -> UnionMemberTypes] :
              \A i, j \in DOMAIN u : i # j => u[i] # u[j]},
     v \in {PyNone, PyStr("hello"), PyStr("1"), PyStr("1.5"), PyStr(""),
            PyInt(0), PyInt(1), PyFloat(15), PyBool(TRUE), PyBool(FALSE)} :
    Convert(u, v)

SpecUnion == Init /\ [][NextUnion]_vars

\* the positions of the members that can be constructed from the value
Constructible(union_type, value) ==
  {i \in DOMAIN union_type : Construct(union_type[i], value).ok}

\* C21: the result is None for None when None is a member of the union;
\* otherwise it is t(value) for the member t of least position whose
\* construction succeeds; and it is the value itself when none succeeds.
UnionDecoding ==
  call.op = "convert_value_into_union_types"
    => LET U == call.union_type
           v == call.value
           ok == Constructible(U, v)
       IN IF v = PyNone /\ (\E i \in DOMAIN U : U[i] = "NoneType") THEN call.res = PyNone
          ELSE IF ok # {}
               THEN \E i \in ok : /\ \A j \in ok : i <= j
                                  /\ call.res = Construct(U[i], v).val
          ELSE call.res = v

\* Union[int, float, str] and "1.5": int fails, float is the first to succeed
WitnessUnionDecoding ==
  /\ call.op = "convert_value_into_union_types"
  /\ call.union_type = <<"int", "float", "str">>
  /\ call.value = PyStr("1.5")
  /\ call.res = PyFloat(15)

-----------------------------------------------------------------------------
(* SpecConvert: records with a field whose value is of a class with an     *)
(* enabled custom conversion: World with its Hello (tests/test_nested.py)  *)
(* and Sign with its Label, whose name may be empty, each added to a table *)
(* of its own without foreign_tables.                                      *)

WorldValues ==
  {PyModel("World", [uuid |-> PyStr(k),
                     hello |-> PyModel("Hello", [name |-> PyStr(nm)])]) :
     k \in Keys("w"), nm \in NameValues}

SignValues ==
  {PyModel("Sign", [uuid |-> PyStr(k),
                    label |-> PyModel("Label", [name |-> PyStr(nm)])]) :
     k \in Keys("s"), nm \in {"", "Bo"}}

NextConvert ==
  \/ \E m \in WorldValues, u \in BOOLEAN : Add("Worlds", m, <<>>, u, "uuid")
  \/ \E m \in SignValues, u \in BOOLEAN : Add("Signs", m, <<>>, u, "uuid")

SpecConvert == Init /\ [][NextConvert]_vars

\* the fields of a record whose value is of a class with an enabled custom conversion
ConvertedFields(model) ==
  {f \in FieldNames(model.cls) :
     model.fields[f].ty = "model" /\ special_possible(model.fields[f].cls)}

\* C22: an add of a record of the table's type with a field whose value is of
\* a class with an enabled custom conversion returns, and the row under the
\* record's key holds convert(value) in that field's column, whatever
\* convert returns; the table keeps no foreign key for the field.
CustomConversionPreempts ==
  [][(call'.op = "add" /\ ConvertedFields(call'.model) # {}
      /\ (call'.tablename \in DOMAIN _basemodels
            => _basemodels[call'.tablename].basemodel_cls = call'.model.cls))
     => LET T == call'.tablename
            m == call'.model
        IN /\ call'.exc = "none"
           /\ rows_where(_db', T, "uuid", m.fields.uuid) # {}
           /\ \A f \in ConvertedFields(m) :
                /\ f \notin DOMAIN foreign_keys_of(_db', T)
                /\ \A r \in rows_where(_db', T, "uuid", m.fields.uuid) :
                     r[f] = Adapt(SQConvert(m.fields[f]))]_vars

-----------------------------------------------------------------------------
(* SpecRegistry: DataBase objects on the file test.db, one after the       *)
(* other, and one on data.db that leaves that file without a table; on     *)
(* test.db a Person and a Student are added to two tables under either key *)
(* field, and either file is loaded.                                       *)

RegistryFiles == {"test.db", "data.db"}

NextRegistry ==
  \/ \E f \in RegistryFiles : Open(f)
  \/ \E t \in {"Admins", "Users"}, c \in {"Person", "Student"}, pk \in {"uuid", "name"} :
       /\ db_filename = "test.db"
       /\ Add(t, PyModel(c, [uuid |-> PyStr("p1"), name |-> PyStr("Bo")]), <<>>, TRUE, pk)
  \/ \E f \in RegistryFiles : db_filename = "test.db" /\ Load(f)

SpecRegistry == Init /\ [][NextRegistry]_vars

\* no table is named by two metadata rows: the order in which load reads
\* the rows does not matter
MetadataUnambiguous ==
  \A r1, r2 \in rows_of(_db, "__basemodels__") : r1.table = r2.table => r1 = r2

\* C24: an add or a load on a DataBase leaves every table that is registered
\* registered with the record type and the primary-key field it has (stated
\* for the calls made while no table is named by two metadata rows).
RegistryImmutable ==
  [][(call'.op \in {"add", "load"} /\ MetadataUnambiguous)
     => \A t \in DOMAIN _basemodels :
          /\ t \in DOMAIN _basemodels'
          /\ _basemodels'[t] = _basemodels[t]
          /\ _primary_keys'[t] = _primary_keys[t]]_vars

-----------------------------------------------------------------------------
(* SpecDeep: Team -> Employee -> Person with more than one Employee, so    *)
(* that a Team can bring an Employee that is not stored yet together with  *)
(* a Person that is.                                                       *)

DeepPersons == {m \in PersonValues : m.fields.uuid = PyStr("p1")}
DeepEmployees ==
  {PyModel("Employee", [uuid |-> PyStr(k), person |-> p]) : k \in Keys("e"), p \in DeepPersons}

NextDeep ==
  \/ \E m \in DeepPersons : Add("Persons", m, <<>>, TRUE, "uuid")
  \/ \E m \in DeepEmployees, u \in BOOLEAN : Add("Employee", m, [person |-> "Persons"], u, "uuid")
  \/ \E e \in DeepEmployees, u \in BOOLEAN :
       Add("Team", PyModel("Team", [uuid |-> PyStr("t1"), employee |-> e]),
           [employee |-> "Employee"], u, "uuid")

SpecDeep == Init /\ [][NextDeep]_vars

\* C27: an add with update_nested_models=False leaves every row that any
\* table other than the one added to holds as it is; it only inserts rows
\* there, at any depth of nesting.
NestedRowsProtectedAtDepth ==
  [][(call'.op = "add" /\ ~call'.update_nested_models)
     => \A t \in DOMAIN _db \ {call'.tablename, "__basemodels__"} :
          rows_of(_db, t) \subseteq rows_of(_db', t)]_vars

-----------------------------------------------------------------------------
(* SpecRepr: World and Sign records as in SpecConvert, each with or        *)
(* without a storable form of its own: an instance that keeps the dict of  *)
(* its field values as its attribute sqlite_repr.                          *)

\* the instances, and each with its model_dump() kept as sqlite_repr
ReprModels(values) ==
  values \cup {[ty |-> m.ty, cls |-> m.cls, fields |-> m.fields, sqlite_repr |-> m.fields] : m \in values}

NextRepr ==
  \/ \E m \in ReprModels(WorldValues) : Add("Worlds", m, <<>>, TRUE, "uuid")
  \/ \E m \in ReprModels(SignValues) : Add("Signs", m, <<>>, TRUE, "uuid")

SpecRepr == Init /\ [][NextRepr]_vars

\* C28: the instance passed to add, its nested records and the storable form
\* it exposes as sqlite_repr are after the call what they were before it,
\* whether the call returned or raised.
ArgumentUnchanged ==
  call.op = "add" => call.after = call.model

-----------------------------------------------------------------------------
(* SpecDup: DataBase objects on the file test.db, one after the other;     *)
(* Person records are added to the table Users under either key field and  *)
(* looked up by uuid and by name.                                          *)

NextDup ==
  \/ Open("test.db")
  \/ \E m \in PersonValues, pk \in {"uuid", "name"} : Add("Users", m, <<>>, TRUE, pk)
  \/ \E k \in {PyStr(k) : k \in Keys("p")} \cup {PyStr(nm) : nm \in NameValues} : "Users" \in DOMAIN _primary_keys /\ ModelFromTable("Users", k)

SpecDup == Init /\ [][NextDup]_vars

\* C29: a model_from_table whose lookup by the registered primary key
\* matches more than one row ends with an exception and returns no instance.
DuplicateKeyIsFatal ==
  (/\ call.op = "model_from_table"
   /\ Cardinality(RowsWithKey(State, call.tablename, call.pk_value)) > 1)
  => /\ call.exc # "none"
     /\ call.val = PyNone

-----------------------------------------------------------------------------
(* SpecCycle: adds that try to make a table refer to itself or to a table  *)
(* that refers back to it: Employee, Team and Garage records with          *)
(* foreign_tables naming the table added to, a table created later, or the *)
(* proper target; every table is iterated over and read by key.            *)

CyclePerson == PyModel("Person", [uuid |-> PyStr("p1"), name |-> PyStr("Bo")])
CycleEmployee == PyModel("Employee", [uuid |-> PyStr("e1"), person |-> CyclePerson])
CycleTeam == PyModel("Team", [uuid |-> PyStr("t1"), employee |-> CycleEmployee])
CycleTables == {"Persons", "Employee", "Team", "Garages"}

\* the maps foreign_tables is called with for a field
CycleMaps(field) == {<<>>} \cup {field :> t : t \in CycleTables}

NextCycle ==
  \/ Add("Persons", CyclePerson, <<>>, TRUE, "uuid")
  \/ \E ft \in CycleMaps("person"), u \in BOOLEAN : Add("Employee", CycleEmployee, ft, u, "uuid")
  \/ \E ft \in CycleMaps("employee"), u \in BOOLEAN : Add("Team", CycleTeam, ft, u, "uuid")
  \/ \E ft \in CycleMaps("cars") : Add("Garages", PyModel("Garage", [uuid |-> PyStr("g1"), cars |-> PyList(<<>>)]), ft, TRUE, "uuid")
  \/ \E t \in CycleTables : Iterate(t)
  \/ \E t \in CycleTables \cap DOMAIN _primary_keys, k \in {"p1", "e1", "t1", "g1"} :
       ModelFromTable(t, PyStr(k))

SpecCycle == Init /\ [][NextCycle]_vars

\* the tables the foreign keys of a table refer to
Targets(db, tablename) ==
  {foreign_keys_of(db, tablename)[c] : c \in DOMAIN foreign_keys_of(db, tablename)}

RECURSIVE ReachableFrom(_, _, _)
\* the tables reached from the tables todo by following foreign keys
ReachableFrom(db, todo, seen) ==
  IF todo = {} THEN seen
  ELSE LET t == CHOOSE x \in todo : TRUE
           new == Targets(db, t) \ seen
       IN ReachableFrom(db, (todo \ {t}) \cup new, seen \cup new)

\* C30: in every state reached by adds, every foreign key of a table names a
\* table of the database and no table is reached from itself by following
\* foreign keys, so the resolutions model_from_table and the iteration
\* follow are a finite chain; and every read made has returned or raised.
ReadsTerminate ==
  /\ \A t \in table_names(_db) :
       /\ Targets(_db, t) \subseteq table_names(_db)
       /\ t \notin ReachableFrom(_db, Targets(_db, t), Targets(_db, t))
  /\ call.op \in {"iterate", "model_from_table"} => call.exc \in STRING

\* a Team has been read back through two foreign keys, Team -> Employee ->
\* Persons
WitnessReadsTerminate ==
  /\ call.op = "model_from_table"
  /\ call.exc = "none"
  /\ call.val = CycleTeam
  /\ "Employee" \in ReachableFrom(_db, {"Team"}, {})
  /\ "Persons" \in ReachableFrom(_db, {"Team"}, {})

=============================================================================
